---- MODULE Spec2Model ----
(***************************************************************************)
(* A model of the group-chat router of src/group_chat.py (class GroupChat) *)
(* together with the agent handle of src/base_agent.py (BaseAgent.run).    *)
(*                                                                         *)
(* Text is modelled character by character: a message body and an          *)
(* identifier are sequences of one-character strings, so that the mention  *)
(* parser is the scan the regular expression performs.                     *)
(*                                                                         *)
(* The later sections model the reminder schedulers: src/reminder.py and   *)
(* the one inside GroupChat, and the file-backed programs                  *)
(* src/reminder_claude.py and src/reminder_gemini.py.                      *)
(***************************************************************************)
EXTENDS Integers, Sequences, FiniteSets, TLC

VARIABLES
    agents,         \* GroupChat.agents: the dict, as its entry array (insertion order)
    is_processing,  \* BaseAgent.is_processing of each agent object
    chat_history,   \* GroupChat.chat_history: the list of MessageRecord
    running,        \* GroupChat.running
    chat_logging,   \* GroupChat.chat_logging
    poll,           \* the task running GroupChat._check_idle_agents
    tasks,          \* further tasks made by asyncio.create_task: calls of
                    \* _send_to_agent, poll tasks of earlier start() calls
    console,        \* the task running GroupChat.handle_human_input
    calls,          \* history: every lookup of an agent by _send_to_agent, as
                    \* [agent_id, recs, ran], ran when agent.run was called
    shown,          \* history: every batch printed by _send_to_human
    reminders,      \* GroupChat.reminders / ReminderManager.reminders: the list of Reminder
    reminder_thread,\* the thread running _check_reminders
    now,            \* the clock time.time() and datetime.datetime.now() read, in seconds
    created,        \* how many Reminder objects were constructed
    fired,          \* history: every invocation of the callback of ReminderManager.start
    file,           \* the reminder file at REMINDER_FILE_PATH: its blocks or lines
    monitor,        \* the monitor thread of reminder_claude.py / reminder_gemini.py
    main,           \* the main thread of reminder_gemini.py inside update_reminder
    notified,       \* history: every reminder handed to _show_notification / notify_user
    written         \* history: of each id, the status the main thread last wrote

vars == <<agents, is_processing, chat_history, running, chat_logging,
          poll, tasks, console, calls, shown,
          reminders, reminder_thread, now, created, fired,
          file, monitor, main, notified, written>>

\* the state of the reminder scheduler
reminderVars == <<reminders, reminder_thread, now, created, fired>>

\* the state of the file-backed reminder programs
fileVars == <<file, monitor, main, notified, written>>

----------------------------------------------------------------------------
(* Bounds of the model. *)

\* the longest chat_history the environment is allowed to build
MaxHistory == 4
\* how many _send_to_agent tasks may be pending at once
MaxTasks == 5
\* the longest readers list an expansion of "all" may build
MaxReaders == 6
\* the longest chat_history the direct callers are allowed to build
MaxDirectHistory == 3
\* how many agent lookups the direct callers may cause
MaxCalls == 2

----------------------------------------------------------------------------
(* Identifiers and literal text. *)

None == <<>>

system  == <<"s","y","s","t","e","m">>
human   == <<"h","u","m","a","n">>
all     == <<"a","l","l">>
servant == <<"s","e","r","v","a","n","t">>
bob     == <<"b","o","b">>

\* the agent objects the environment may register (BaseAgent.name)
AgentNames == {servant, bob}
Reserved == {system, human, all}
Ids == Reserved \cup AgentNames

\* the characters \w matches (ASCII letters, digits, underscore)
WordChars ==
    {"a","b","c","d","e","f","g","h","i","j","k","l","m","n","o","p","q","r",
     "s","t","u","v","w","x","y","z","A","B","C","D","E","F","G","H","I","J",
     "K","L","M","N","O","P","Q","R","S","T","U","V","W","X","Y","Z","0","1",
     "2","3","4","5","6","7","8","9","_"}

\* a variant of the announcement that mentions nobody
JoinedMessagePlain(name) ==
    <<"S","y","s","t","e","m",":"," ">> \o name \o
    <<" ","h","a","s"," ","j","o","i","n","e","d"," ","t","h","e"," ",
      "c","h","a","t",".">>

\* f"System: {agent.name} has joined the chat. @all"
JoinedMessage(name) ==
    <<"S","y","s","t","e","m",":"," ">> \o name \o
    <<" ","h","a","s"," ","j","o","i","n","e","d"," ","t","h","e"," ",
      "c","h","a","t","."," ","@","a","l","l">>

\* f"System: {agent_id} has left the chat. @all"
LeftMessage(agent_id) ==
    <<"S","y","s","t","e","m",":"," ">> \o agent_id \o
    <<" ","h","a","s"," ","l","e","f","t"," ","t","h","e"," ",
      "c","h","a","t","."," ","@","a","l","l">>

\* f"@servant {text}"
HumanMessage(text) == <<"@","s","e","r","v","a","n","t"," ">> \o text

CHAT == <<"C","H","A","T">>
LOG  == <<"L","O","G">>
EXIT == <<"E","X","I","T">>

\* what an agent's run() may return (Runner's final_output)
Replies ==
    { <<"@","h","u","m","a","n">>,                  \* "@human"
      <<"o","k">>,                                  \* "ok": no mention
      <<"@","b","o","b">> }                         \* "@bob"

\* the texts the human may send
Texts ==
    { <<"@","a","l","l">>,                                      \* "@all"
      <<"@","s","e","r","v","a","n","t"," ","@","b","o","b">> } \* "@servant @bob"

\* the lines the human may type at the console (after strip())
Lines ==
    { CHAT, LOG, EXIT,
      <<>>,                                         \* ""
      <<" ">>,                                      \* " "
      <<" ","L","O","G"," ">>,                      \* " LOG "
      <<"h","i">> }                                 \* "hi"

----------------------------------------------------------------------------
(* Pure functions of GroupChat. *)

\* the end of the longest run of word characters of s that starts at i
RECURSIVE WordEnd(_, _)
WordEnd(s, i) ==
    IF i + 1 <= Len(s) /\ s[i + 1] \in WordChars THEN WordEnd(s, i + 1) ELSE i

\* re.findall(r'@(\w+)', message): the matches from position i on, left to
\* right, not overlapping, each the longest run of word characters after "@"
RECURSIVE FindAll(_, _)
FindAll(s, i) ==
    IF i > Len(s) THEN <<>>
    ELSE IF s[i] = "@" /\ i + 1 <= Len(s) /\ s[i + 1] \in WordChars
         THEN LET j == WordEnd(s, i + 1)
              IN  <<SubSeq(s, i + 1, j)>> \o FindAll(s, j + 1)
         ELSE FindAll(s, i + 1)

ParseMentions(message) == FindAll(message, 1)

\* x in list
In(x, list) == \E i \in 1..Len(list) : list[i] = x

\* MessageRecord(sender=..., message=..., receivers=..., readers=[]); the
\* timestamp defaults to datetime.now()
MessageRecord(sender, message, receivers) ==
    [sender |-> sender, message |-> message, timestamp |-> now,
     receivers |-> receivers, readers |-> <<>>]

\* a variant that stores the record whether or not it mentions anyone
SendToChatAlways(hist, sender_id, message) ==
    Append(hist, MessageRecord(sender_id, message, ParseMentions(message)))

\* a variant that puts the new record in front of the list
SendToChatFront(hist, sender_id, message) ==
    LET receivers == ParseMentions(message)
    IN  IF receivers # <<>>
        THEN <<MessageRecord(sender_id, message, receivers)>> \o hist
        ELSE hist

\* _send_to_chat: the chat_history after the call
SendToChat(hist, sender_id, message) ==
    LET receivers == ParseMentions(message)
    IN  IF receivers # <<>>
        THEN Append(hist, MessageRecord(sender_id, message, receivers))
        ELSE hist

\* _send_to_chat: the value returned
SendToChatResult(message) == ParseMentions(message) # <<>>

\* _read_message_records; message_records are references to records of
\* chat_history, modelled as their positions in it, one append per reference
RECURSIVE ReadMessageRecords(_, _, _)
ReadMessageRecords(hist, agent_id, message_records) ==
    IF message_records = <<>> THEN hist
    ELSE LET k == Head(message_records)
         IN  ReadMessageRecords(
                 [hist EXCEPT ![k].readers = Append(@, agent_id)],
                 agent_id, Tail(message_records))

\* _check_unread_messages: the list comprehension over chat_history from
\* position i on
RECURSIVE UnreadFrom(_, _, _)
UnreadFrom(hist, agent_id, i) ==
    IF i > Len(hist) THEN <<>>
    ELSE IF In(agent_id, hist[i].receivers) /\ ~In(agent_id, hist[i].readers)
         THEN <<i>> \o UnreadFrom(hist, agent_id, i + 1)
         ELSE UnreadFrom(hist, agent_id, i + 1)

\* a variant that lists the newest unread record first
RECURSIVE UnreadNewestFirst(_, _, _)
UnreadNewestFirst(hist, agent_id, i) ==
    IF i < 1 THEN <<>>
    ELSE IF In(agent_id, hist[i].receivers) /\ ~In(agent_id, hist[i].readers)
         THEN <<i>> \o UnreadNewestFirst(hist, agent_id, i - 1)
         ELSE UnreadNewestFirst(hist, agent_id, i - 1)

CheckUnreadNewestFirst(hist, agent_id) == UnreadNewestFirst(hist, agent_id, Len(hist))

\* a variant that lists every record agent_id has not read, mentioned or not
RECURSIVE UnreadAnyFrom(_, _, _)
UnreadAnyFrom(hist, agent_id, i) ==
    IF i > Len(hist) THEN <<>>
    ELSE IF ~In(agent_id, hist[i].readers)
         THEN <<i>> \o UnreadAnyFrom(hist, agent_id, i + 1)
         ELSE UnreadAnyFrom(hist, agent_id, i + 1)

CheckUnreadAny(hist, agent_id) == UnreadAnyFrom(hist, agent_id, 1)

CheckUnreadMessages(hist, agent_id) == UnreadFrom(hist, agent_id, 1)

----------------------------------------------------------------------------
(* The dict self.agents: an array of entries in insertion order; a deleted *)
(* entry stays in the array as a dead slot, as in CPython.                 *)

Entry(key, agent) == [key |-> key, agent |-> agent, live |-> TRUE]

LiveSlots(d) == {i \in 1..Len(d) : d[i].live}

\* len(self.agents)
DictLen(d) == Cardinality(LiveSlots(d))

\* key in self.agents
DictHas(d, key) == \E i \in LiveSlots(d) : d[i].key = key

\* a variant that still finds the entry of a deleted key
DictGetStale(d, key) ==
    IF \E i \in 1..Len(d) : d[i].key = key
    THEN d[CHOOSE i \in 1..Len(d) : d[i].key = key].agent
    ELSE None

\* self.agents.get(key)
DictGet(d, key) ==
    IF DictHas(d, key)
    THEN d[CHOOSE i \in LiveSlots(d) : d[i].key = key].agent
    ELSE None

\* self.agents[key] = agent
DictSet(d, key, agent) ==
    IF DictHas(d, key)
    THEN [i \in 1..Len(d) |->
             IF d[i].live /\ d[i].key = key THEN Entry(key, agent) ELSE d[i]]
    ELSE Append(d, Entry(key, agent))

\* del self.agents[key]
DictDel(d, key) ==
    [i \in 1..Len(d) |->
        IF d[i].live /\ d[i].key = key THEN [d[i] EXCEPT !.live = FALSE] ELSE d[i]]

\* list(self.agents): the keys in iteration order
RECURSIVE DictKeysFrom(_, _)
DictKeysFrom(d, i) ==
    IF i > Len(d) THEN <<>>
    ELSE IF d[i].live THEN <<d[i].key>> \o DictKeysFrom(d, i + 1)
         ELSE DictKeysFrom(d, i + 1)

DictKeys(d) == DictKeysFrom(d, 1)

\* the first live slot at or after pos (Len(d) + 1 when there is none)
RECURSIVE NextLive(_, _)
NextLive(d, pos) ==
    IF pos > Len(d) THEN Len(d) + 1
    ELSE IF d[pos].live THEN pos ELSE NextLive(d, pos + 1)

----------------------------------------------------------------------------
(* The thread running _check_reminders: where it stands (pc), how many items *)
(* its list iterator has passed (i), the reminder it is about to fire (cur), *)
(* the local list triggered_reminders and, inside _send_to_chat, the local   *)
(* message_record; reminders are referred to by the number of the object.    *)

Thread(pc) ==
    [pc |-> pc, i |-> 0, cur |-> 0, triggered_reminders |-> <<>>,
     message_record |-> None]

\* no thread was started
NoThread == Thread("none")

----------------------------------------------------------------------------
(* The state after GroupChat.__init__; no task has been started. *)

\* the ids uuid.uuid4().hex[:10] of reminder_gemini.py returns
Uuids == {<<"a","1">>, <<"b","2">>}

\* no monitor thread was started: now and reminders are the locals of
\* _monitor_loop, i the position of its for loop, local the list of the
\* update_reminder call it makes
NoMonitor == [pc |-> "none", stop |-> FALSE, now |-> 0, reminders |-> <<>>,
              i |-> 0, local |-> <<>>]

\* the main thread outside update_reminder
MainIdle == [pc |-> "idle", reminder_id |-> None, new_status |-> "", local |-> <<>>]

NoPoll == [pc |-> "none", pos |-> 0, used |-> 0, len |-> 0,
           agent_id |-> None, recs |-> <<>>]

Init ==
    /\ agents = <<Entry(system, None), Entry(human, None), Entry(all, None)>>
    /\ is_processing = [a \in AgentNames |-> FALSE]
    /\ chat_history = <<>>
    /\ running = FALSE
    /\ chat_logging = FALSE
    /\ poll = NoPoll
    /\ tasks = <<>>
    /\ console = "none"
    /\ calls = <<>>
    /\ shown = <<>>
    /\ reminders = <<>>
    /\ reminder_thread = NoThread
    /\ now = 0
    /\ created = 0
    /\ fired = <<>>
    /\ file = <<>>
    /\ monitor = NoMonitor
    /\ main = MainIdle
    /\ notified = <<>>
    /\ written = [id \in Uuids |-> ""]

----------------------------------------------------------------------------
(* Registry operations. *)

\* add_agent(agent), agent.name = name
AddAgent(name) ==
    /\ Len(chat_history) < MaxHistory
    /\ agents' = DictSet(agents, name, name)
    /\ chat_history' = SendToChat(chat_history, all, JoinedMessage(name))
    /\ UNCHANGED <<is_processing, running, chat_logging, poll, tasks, console,
                   calls, shown>>
    /\ UNCHANGED <<reminderVars, fileVars>>

\* remove_agent(agent_id)
RemoveAgent(agent_id) ==
    /\ Len(chat_history) < MaxHistory
    /\ IF DictHas(agents, agent_id)
       THEN /\ agents' = DictDel(agents, agent_id)
            /\ chat_history' = SendToChat(chat_history, all, LeftMessage(agent_id))
       ELSE UNCHANGED <<agents, chat_history>>
    /\ UNCHANGED <<is_processing, running, chat_logging, poll, tasks, console,
                   calls, shown>>
    /\ UNCHANGED <<reminderVars, fileVars>>

----------------------------------------------------------------------------
(* BaseAgent.run and the two ways GroupChat._send_to_agent ends. *)

Call(agent_id, recs, ran) == [agent_id |-> agent_id, recs |-> recs, ran |-> ran]

\* run() up to its await of Runner.run: the flag is set and the call is logged
RunCall(agent, agent_id, recs) ==
    /\ is_processing' = [is_processing EXCEPT ![agent] = TRUE]
    /\ calls' = Append(calls, Call(agent_id, recs, TRUE))

\* a variant that posts the reply under the sender "all", as the registry's
\* announcements are posted
SendToAgentDoneAsAll(hist, agent_id, recs, message) ==
    ReadMessageRecords(SendToChat(hist, all, message), agent_id, recs)

\* a variant that posts the reply and leaves the batch unread
SendToAgentDoneUnread(hist, agent_id, recs, message) ==
    SendToChat(hist, agent_id, message)

\* run() returned message: _send_to_chat(agent_id, message), then
\* _read_message_records(agent_id, message_records)
SendToAgentDone(hist, agent_id, recs, message) ==
    ReadMessageRecords(SendToChat(hist, agent_id, message), agent_id, recs)

\* run() raised: the except branch prints and returns None
SendToAgentFailed(hist, agent_id, recs) == hist

----------------------------------------------------------------------------
(* _check_idle_agents. *)

\* _send_to_human: prints each record and marks the batch read for "human"
SendToHuman(hist, message_records) ==
    ReadMessageRecords(hist, human, message_records)

\* The for loop over self.agents.items() from iterator position pos, with len
\* items still expected and size used at the iterator's creation, run until the
\* task next suspends: at the await of an agent's run ("await"), at
\* asyncio.sleep after the last entry ("sleep"), or never again when the
\* iterator raises RuntimeError ("error").
RECURSIVE Walk(_, _, _, _, _)
Walk(pos, len, used, hist, out) ==
    LET i == NextLive(agents, pos)
        stop(pc) == [pc |-> pc, pos |-> 0, len |-> 0, agent_id |-> None,
                     recs |-> <<>>, hist |-> hist, shown |-> out]
    IN  IF used # DictLen(agents) THEN stop("error")
        ELSE IF i > Len(agents) THEN stop("sleep")
        ELSE IF len = 0 THEN stop("error")
        ELSE
          LET agent_id == agents[i].key
              agent == agents[i].agent
          IN  IF agent_id \in {system, all}
              THEN Walk(i + 1, len - 1, used, hist, out)
              ELSE
                LET forHuman == IF agent_id = human
                                THEN CheckUnreadMessages(hist, human) ELSE <<>>
                    hist1 == IF forHuman # <<>>
                             THEN SendToHuman(hist, forHuman) ELSE hist
                    out1 == IF forHuman # <<>> THEN Append(out, forHuman) ELSE out
                    unread == CheckUnreadMessages(hist1, agent_id)
                IN  IF agent # None /\ ~is_processing[agent] /\ unread # <<>>
                    THEN [pc |-> "await", pos |-> i + 1, len |-> len - 1,
                          agent_id |-> agent_id, recs |-> unread,
                          hist |-> hist1, shown |-> out1]
                    ELSE Walk(i + 1, len - 1, used, hist1, out1)

\* the state the poll task leaves when it suspends after the walk w
Suspend(w, used, flags) ==
    /\ poll' = [pc |-> w.pc, pos |-> w.pos, len |-> w.len, agent_id |-> w.agent_id,
                recs |-> w.recs,
                used |-> IF w.pc = "await" THEN used ELSE 0]
    /\ chat_history' = w.hist
    /\ shown' = w.shown
    /\ IF w.pc = "await"
       THEN /\ is_processing' = [flags EXCEPT ![DictGet(agents, w.agent_id)] = TRUE]
            /\ calls' = Append(calls, Call(w.agent_id, w.recs, TRUE))
       ELSE /\ is_processing' = flags
            /\ calls' = calls

\* a variant whose while loop does not test self.running
PollTickAlways ==
    /\ poll.pc \in {"ready", "sleep"}
    /\ Suspend(Walk(1, DictLen(agents), DictLen(agents), chat_history, shown),
               DictLen(agents), is_processing)
    /\ UNCHANGED <<agents, running, chat_logging, tasks, console>>
    /\ UNCHANGED <<reminderVars, fileVars>>

\* the task starts, or wakes from asyncio.sleep(1): the while test, then a
\* new iteration over self.agents.items()
PollTick ==
    /\ poll.pc \in {"ready", "sleep"}
    /\ IF running
       THEN Suspend(Walk(1, DictLen(agents), DictLen(agents), chat_history, shown),
                    DictLen(agents), is_processing)
       ELSE /\ poll' = [NoPoll EXCEPT !.pc = "done"]
            /\ UNCHANGED <<chat_history, shown, is_processing, calls>>
    /\ UNCHANGED <<agents, running, chat_logging, tasks, console>>
    /\ UNCHANGED <<reminderVars, fileVars>>

\* Runner.run returned message to the run() the poll task awaits: run()
\* clears the flag and returns, _send_to_agent posts the reply and marks the
\* batch read, and the for loop goes on with the same iterator
PollRunReturns(message) ==
    /\ poll.pc = "await"
    /\ Len(chat_history) < MaxHistory \/ ~SendToChatResult(message)
    /\ LET agent == poll.agent_id
           hist == SendToAgentDone(chat_history, poll.agent_id, poll.recs, message)
       IN  Suspend(Walk(poll.pos, poll.len, poll.used, hist, shown), poll.used,
                   [is_processing EXCEPT ![agent] = FALSE])
    /\ UNCHANGED <<agents, running, chat_logging, tasks, console>>
    /\ UNCHANGED <<reminderVars, fileVars>>

\* Runner.run raised: run() leaves without clearing the flag, the except
\* branch of _send_to_agent swallows the exception, the for loop goes on
PollRunRaises ==
    /\ poll.pc = "await"
    /\ LET hist == SendToAgentFailed(chat_history, poll.agent_id, poll.recs)
       IN  Suspend(Walk(poll.pos, poll.len, poll.used, hist, shown), poll.used,
                   is_processing)
    /\ UNCHANGED <<agents, running, chat_logging, tasks, console>>
    /\ UNCHANGED <<reminderVars, fileVars>>

----------------------------------------------------------------------------
(* start, stop and the console loop. *)

\* start(): the first call; the loop task is created and runs later
Start ==
    /\ ~running
    /\ poll.pc = "none"
    /\ running' = TRUE
    /\ poll' = [poll EXCEPT !.pc = "ready"]
    /\ UNCHANGED <<agents, is_processing, chat_history, chat_logging, tasks,
                   console, calls, shown>>
    /\ reminder_thread' = Thread("test")
    /\ UNCHANGED <<reminders, now, created, fired>>
    /\ UNCHANGED fileVars

\* stop()
Stop ==
    /\ running
    /\ running' = FALSE
    /\ UNCHANGED <<agents, is_processing, chat_history, chat_logging, poll, tasks,
                   console, calls, shown>>
    /\ UNCHANGED <<reminderVars, fileVars>>

\* asyncio.create_task(chat.handle_human_input())
HandleHumanInput ==
    /\ console = "none"
    /\ console' = "reading"
    /\ UNCHANGED <<agents, is_processing, chat_history, running, chat_logging,
                   poll, tasks, calls, shown>>
    /\ UNCHANGED <<reminderVars, fileVars>>

\* human_input(text)
HumanInput(hist, text) == SendToChat(hist, human, HumanMessage(text))

\* the characters str.strip() removes
Whitespace == {" ", "\t", "\n"}

\* str.lstrip()
RECURSIVE LStrip(_)
LStrip(text) ==
    IF text # <<>> /\ Head(text) \in Whitespace THEN LStrip(Tail(text)) ELSE text

\* str.rstrip()
RECURSIVE RStrip(_)
RStrip(text) ==
    IF text # <<>> /\ text[Len(text)] \in Whitespace
    THEN RStrip(SubSeq(text, 1, Len(text) - 1)) ELSE text

\* str.strip()
Strip(text) == RStrip(LStrip(text))

\* one turn of the while loop of handle_human_input: input() returns line
ConsoleLine(line) ==
    /\ console = "reading"
    /\ LET user_input == Strip(line)
       IN  IF user_input = CHAT
           THEN UNCHANGED <<chat_history, chat_logging, console>>
           ELSE IF user_input = LOG
           THEN /\ chat_logging' = ~chat_logging
                /\ UNCHANGED <<chat_history, console>>
           ELSE IF user_input = EXIT
           THEN /\ console' = "exited"
                /\ UNCHANGED <<chat_history, chat_logging>>
           ELSE /\ Len(chat_history) < MaxHistory
                /\ chat_history' = HumanInput(chat_history, user_input)
                /\ UNCHANGED <<chat_logging, console>>
    /\ UNCHANGED <<agents, is_processing, running, poll, tasks, calls, shown>>
    /\ UNCHANGED <<reminderVars, fileVars>>

\* input() raises: KeyboardInterrupt returns True, any Exception prints and
\* returns False; the loop is over either way
ConsoleInputRaises ==
    /\ console = "reading"
    /\ console' = "exited"
    /\ UNCHANGED <<agents, is_processing, chat_history, running, chat_logging,
                   poll, tasks, calls, shown>>
    /\ UNCHANGED <<reminderVars, fileVars>>

----------------------------------------------------------------------------

\* human_input(text) called by the owner of the chat
DirectHumanInput(text) ==
    /\ Len(chat_history) < MaxHistory
    /\ chat_history' = HumanInput(chat_history, text)
    /\ UNCHANGED <<agents, is_processing, running, chat_logging, poll, tasks,
                   console, calls, shown>>
    /\ UNCHANGED <<reminderVars, fileVars>>

----------------------------------------------------------------------------
(* The chat as its owner drives it: agents come and go, the human speaks,  *)
(* the chat is started and stopped, and the poll task runs.                 *)
(* No reminder is added here: the reminder thread start() creates has only *)
(* the empty list to pass over, and its steps are left to SpecChat.         *)

Next ==
    \/ \E name \in AgentNames : AddAgent(name)
    \/ \E agent_id \in AgentNames : RemoveAgent(agent_id)
    \/ \E text \in Texts : DirectHumanInput(text)
    \/ Start
    \/ Stop
    \/ PollTick
    \/ \E message \in Replies : PollRunReturns(message)
    \/ PollRunRaises

Spec == Init /\ [][Next]_vars

\* the run() the poll task awaits ends, one way or the other
PollRunEnds == (\E message \in Replies : PollRunReturns(message)) \/ PollRunRaises

\* The event loop resumes the poll task whenever it can run; nothing is
\* assumed of the agents: a run() may never end.
SpecHang == Spec /\ WF_vars(PollTick)

\* The event loop resumes the poll task whenever it can run, and every run()
\* ends.
SpecFair == Spec /\ WF_vars(PollTick) /\ WF_vars(PollRunEnds)

\* The chat as main() runs it: start(), one agent added, and the console task
\* reading the human's lines while the poll task runs.
ConsoleNext ==
    \/ Start
    \/ Stop
    \/ AddAgent(servant)
    \/ HandleHumanInput
    \/ \E line \in Lines : ConsoleLine(line)
    \/ ConsoleInputRaises
    \/ PollTick
    \/ \E message \in Replies : PollRunReturns(message)
    \/ PollRunRaises

SpecConsole == Init /\ [][ConsoleNext]_vars

----------------------------------------------------------------------------
(* _send_to_agent called directly: a caller that holds the GroupChat (a     *)
(* test, a tool) schedules self._send_to_agent(agent_id, message_records)  *)
(* on the event loop, as the "all" branch itself does with create_task.    *)

Task(agent_id, recs) == [agent_id |-> agent_id, recs |-> recs, pc |-> "ready"]

\* the sequence s without its element at position t
RemoveAt(s, t) == SubSeq(s, 1, t - 1) \o SubSeq(s, t + 1, Len(s))

\* the "all" branch of _send_to_agent over the keys still to visit: one
\* create_task and one _read_message_records per key of self.agents
RECURSIVE SendToAll(_, _, _, _)
SendToAll(keys, recs, hist, made) ==
    IF keys = <<>> THEN [hist |-> hist, made |-> made]
    ELSE SendToAll(Tail(keys), recs,
                   ReadMessageRecords(hist, Head(keys), recs),
                   Append(made, Task(Head(keys), recs)))

\* the caller passes the unread records of agent_id, as the poll loop does,
\* and awaits one call at a time
DirectSendToAgent(agent_id, recs) ==
    /\ tasks = <<>>
    /\ recs = CheckUnreadMessages(chat_history, agent_id)
    /\ recs # <<>>
    /\ tasks' = Append(tasks, Task(agent_id, recs))
    /\ UNCHANGED <<agents, is_processing, chat_history, running, chat_logging,
                   poll, console, calls, shown>>
    /\ UNCHANGED <<reminderVars, fileVars>>

\* the event loop runs the oldest task that is ready, up to its first await
TaskStart(t) ==
    /\ tasks[t].pc = "ready"
    /\ \A u \in 1..(t - 1) : tasks[u].pc # "ready"
    /\ LET agent_id == tasks[t].agent_id
           recs == tasks[t].recs
           agent == DictGet(agents, agent_id)
       IN  IF agent_id = all
           THEN LET r == SendToAll(DictKeys(agents), recs, chat_history, <<>>)
                IN  /\ Len(tasks) - 1 + DictLen(agents) <= MaxTasks
                    /\ \A k \in 1..Len(recs) :
                          Len(chat_history[recs[k]].readers) + DictLen(agents)
                              <= MaxReaders
                    /\ tasks' = RemoveAt(tasks, t) \o r.made
                    /\ chat_history' = r.hist
                    /\ UNCHANGED <<is_processing, calls>>
           ELSE IF agent # None
           THEN /\ Len(calls) < MaxCalls
                /\ RunCall(agent, agent_id, recs)
                /\ tasks' = [tasks EXCEPT ![t].pc = "await"]
                /\ UNCHANGED chat_history
           ELSE /\ Len(calls) < MaxCalls
                /\ calls' = Append(calls, Call(agent_id, recs, FALSE))
                /\ tasks' = RemoveAt(tasks, t)
                /\ UNCHANGED <<chat_history, is_processing>>
    /\ UNCHANGED <<agents, running, chat_logging, poll, console, shown>>
    /\ UNCHANGED <<reminderVars, fileVars>>

\* Runner.run returned message to the run() task t awaits
TaskRunReturns(t, message) ==
    /\ tasks[t].pc = "await"
    /\ Len(chat_history) < MaxDirectHistory \/ ~SendToChatResult(message)
    /\ is_processing' = [is_processing EXCEPT ![tasks[t].agent_id] = FALSE]
    /\ chat_history' = SendToAgentDone(chat_history, tasks[t].agent_id,
                                       tasks[t].recs, message)
    /\ tasks' = RemoveAt(tasks, t)
    /\ UNCHANGED <<agents, running, chat_logging, poll, console, calls, shown>>
    /\ UNCHANGED <<reminderVars, fileVars>>

\* Runner.run raised in the run() task t awaits
TaskRunRaises(t) ==
    /\ tasks[t].pc = "await"
    /\ chat_history' = SendToAgentFailed(chat_history, tasks[t].agent_id,
                                         tasks[t].recs)
    /\ tasks' = RemoveAt(tasks, t)
    /\ UNCHANGED <<agents, is_processing, running, chat_logging, poll, console,
                   calls, shown>>
    /\ UNCHANGED <<reminderVars, fileVars>>

\* The chat driven by calls of its methods alone, the poll loop not started;
\* the caller makes its next call when the tasks of the last one are gone.
DirectNext ==
    \/ /\ tasks = <<>>
       /\ Len(chat_history) < MaxDirectHistory
       /\ \/ \E name \in AgentNames : AddAgent(name)
          \/ \E agent_id \in AgentNames : RemoveAgent(agent_id)
          \/ \E text \in Texts : DirectHumanInput(text)
    \/ \E agent_id \in Ids :
          DirectSendToAgent(agent_id, CheckUnreadMessages(chat_history, agent_id))
    \/ \E t \in 1..Len(tasks) : TaskStart(t)
    \/ \E t \in 1..Len(tasks), message \in Replies : TaskRunReturns(t, message)
    \/ \E t \in 1..Len(tasks) : TaskRunRaises(t)

SpecDirect == Init /\ [][DirectNext]_vars

----------------------------------------------------------------------------
(* Reminders: class Reminder, the reminder methods GroupChat and            *)
(* ReminderManager share line for line, and the loop _check_reminders as    *)
(* the steps of its thread between which another thread may run.            *)

\* the most Reminder objects constructed
MaxCreated == 2
\* the latest second the clock reaches
MaxClock == 1
\* the most invocations of the callback
MaxFired == 2

\* the owners reminders are added for
Owners == {servant}
\* the trigger times reminders are added with
TriggerTimes == {MaxClock}
\* the text of a reminder
Body == <<"g","o">>

ReminderSystem == <<"R","e","m","i","n","d","e","r","_","S","y","s","t","e","m">>

Digit(d) == <<"0","1","2","3","4","5","6","7","8","9">>[d + 1]

\* str(n) of a non-negative int
RECURSIVE Str(_)
Str(n) == IF n < 10 THEN <<Digit(n)>> ELSE Str(n \div 10) \o <<Digit(n % 10)>>

\* f"reminder_{int(time.time())}_{agent_id}"
ReminderId(time, agent_id) ==
    <<"r","e","m","i","n","d","e","r","_">> \o Str(time) \o <<"_">> \o agent_id

\* Reminder.__init__ for the object number obj, no reminder_id passed
Reminder(agent_id, message, trigger_type, trigger_value, obj) ==
    [agent_id |-> agent_id, message |-> message, trigger_type |-> trigger_type,
     trigger_value |-> trigger_value,
     reminder_id |-> ReminderId(now, agent_id),
     is_active |-> TRUE, obj |-> obj]

\* Reminder.should_trigger, value being what the condition callable returns
ShouldTrigger(r, value) ==
    IF ~r.is_active THEN FALSE
    ELSE IF r.trigger_type = "time" THEN now >= r.trigger_value
    ELSE IF r.trigger_type = "condition" THEN value
    ELSE FALSE

\* f"REMINDER for @{reminder.agent_id}: {reminder.message}"
ReminderMessage(r) == <<"R","E","M","I","N","D","E","R"," ","f","o","r"," ","@">> \o r.agent_id \o <<":"," ">> \o r.message

\* the position in rs of the object number obj, 0 when it is not in rs
RECURSIVE IndexOf(_, _, _)
IndexOf(rs, obj, k) ==
    IF k > Len(rs) THEN 0
    ELSE IF rs[k].obj = obj THEN k
    ELSE IndexOf(rs, obj, k + 1)

\* the position of the first reminder of rs from k on whose id is reminder_id
RECURSIVE FirstWithId(_, _, _)
FirstWithId(rs, reminder_id, k) ==
    IF k > Len(rs) THEN 0
    ELSE IF rs[k].reminder_id = reminder_id THEN k
    ELSE FirstWithId(rs, reminder_id, k + 1)

\* cancel_reminder: the value returned
CancelReminderResult(rs, reminder_id) == FirstWithId(rs, reminder_id, 1) # 0

\* the for loop of self.reminders.remove(reminder) over triggered_reminders
RemoveTriggered(rs, triggered) ==
    SelectSeq(rs, LAMBDA r : \A k \in 1..Len(triggered) : triggered[k] # r.obj)

chatVars == <<agents, is_processing, chat_history, chat_logging, poll, tasks,
              console, calls, shown>>

\* add_time_reminder(agent_id, message, trigger_time)
AddTimeReminder(agent_id, message, trigger_time) ==
    /\ created < MaxCreated
    /\ reminders' = Append(reminders, Reminder(agent_id, message, "time",
                                               trigger_time, created + 1))
    /\ created' = created + 1
    /\ UNCHANGED <<chatVars, fileVars, running, reminder_thread, now, fired>>

\* add_conditional_reminder(agent_id, message, condition)
AddConditionalReminder(agent_id, message) ==
    /\ created < MaxCreated
    /\ reminders' = Append(reminders, Reminder(agent_id, message, "condition",
                                               None, created + 1))
    /\ created' = created + 1
    /\ UNCHANGED <<chatVars, fileVars, running, reminder_thread, now, fired>>

\* cancel_reminder(reminder_id)
CancelReminder(reminder_id) ==
    /\ LET k == FirstWithId(reminders, reminder_id, 1)
       IN  IF k # 0
           THEN reminders' = [reminders EXCEPT ![k].is_active = FALSE]
           ELSE UNCHANGED reminders
    /\ UNCHANGED <<chatVars, fileVars, running, reminder_thread, now, created, fired>>

\* a second passes
Tick ==
    /\ now < MaxClock
    /\ now' = now + 1
    /\ UNCHANGED <<chatVars, fileVars, running, reminders, reminder_thread, created, fired>>

\* _check_reminders: the while test, after the thread started or slept
CheckRemindersTest ==
    /\ reminder_thread.pc = "test"
    /\ reminder_thread' = IF running THEN Thread("iter") ELSE Thread("done")
    /\ UNCHANGED <<chatVars, fileVars, running, reminders, now, created, fired>>

\* the for loop takes the next reminder and should_trigger() returns, the
\* condition callable returning value
CheckRemindersNext(value) ==
    /\ reminder_thread.pc = "iter"
    /\ reminder_thread.i < Len(reminders)
    /\ LET r == reminders[reminder_thread.i + 1]
       IN  reminder_thread' =
             IF ShouldTrigger(r, value)
             THEN [reminder_thread EXCEPT !.pc = "call", !.i = @ + 1, !.cur = r.obj]
             ELSE [reminder_thread EXCEPT !.i = @ + 1]
    /\ UNCHANGED <<chatVars, fileVars, running, reminders, now, created, fired>>

\* the condition callable raises in should_trigger(): nothing catches it and
\* the thread ends
CheckRemindersRaises ==
    /\ reminder_thread.pc = "iter"
    /\ reminder_thread.i < Len(reminders)
    /\ LET r == reminders[reminder_thread.i + 1]
       IN  r.is_active /\ r.trigger_type = "condition"
    /\ reminder_thread' = [reminder_thread EXCEPT !.pc = "dead"]
    /\ UNCHANGED <<chatVars, fileVars, running, reminders, now, created, fired>>

\* the for loop is over: the triggered time reminders are removed and the
\* thread sleeps a second
CheckRemindersRemove ==
    /\ reminder_thread.pc = "iter"
    /\ reminder_thread.i >= Len(reminders)
    /\ reminders' = RemoveTriggered(reminders, reminder_thread.triggered_reminders)
    /\ reminder_thread' = Thread("test")
    /\ UNCHANGED <<chatVars, fileVars, running, now, created, fired>>

\* an invocation of the callback for the reminder r
Fired(r, raised) ==
    [obj |-> r.obj, agent_id |-> r.agent_id, trigger_type |-> r.trigger_type,
     message |-> ReminderMessage(r), raised |-> raised]

\* a variant that marks every fired reminder for removal
CallbackOneShot ==
    /\ reminder_thread.pc = "call"
    /\ Len(fired) < MaxFired
    /\ LET r == reminders[IndexOf(reminders, reminder_thread.cur, 1)]
       IN  /\ fired' = Append(fired, Fired(r, FALSE))
           /\ reminder_thread' =
                [reminder_thread EXCEPT
                    !.pc = "iter", !.cur = 0,
                    !.triggered_reminders = Append(@, r.obj)]
    /\ UNCHANGED <<chatVars, fileVars, running, reminders, now, created>>

\* ReminderManager._check_reminders: callback(reminder_message) returns
Callback ==
    /\ reminder_thread.pc = "call"
    /\ Len(fired) < MaxFired
    /\ LET r == reminders[IndexOf(reminders, reminder_thread.cur, 1)]
       IN  /\ fired' = Append(fired, Fired(r, FALSE))
           /\ reminder_thread' =
                [reminder_thread EXCEPT
                    !.pc = "iter", !.cur = 0,
                    !.triggered_reminders =
                        IF r.trigger_type = "time" THEN Append(@, r.obj) ELSE @]
    /\ UNCHANGED <<chatVars, fileVars, running, reminders, now, created>>

\* ReminderManager._check_reminders: callback(reminder_message) raises:
\* nothing catches it and the thread ends
CallbackRaises ==
    /\ reminder_thread.pc = "call"
    /\ Len(fired) < MaxFired
    /\ LET r == reminders[IndexOf(reminders, reminder_thread.cur, 1)]
       IN  fired' = Append(fired, Fired(r, TRUE))
    /\ reminder_thread' = [reminder_thread EXCEPT !.pc = "dead"]
    /\ UNCHANGED <<chatVars, fileVars, running, reminders, now, created>>

\* ReminderManager.start(callback): the first call
ReminderManagerStart ==
    /\ ~running
    /\ reminder_thread.pc = "none"
    /\ running' = TRUE
    /\ reminder_thread' = Thread("test")
    /\ UNCHANGED <<chatVars, fileVars, reminders, now, created, fired>>

\* ReminderManager.stop()
ReminderManagerStop ==
    /\ running
    /\ running' = FALSE
    /\ UNCHANGED <<chatVars, fileVars, reminders, reminder_thread, now, created, fired>>

\* every identifier add_time_reminder or add_conditional_reminder may have
\* returned so far
ReturnedIds == {ReminderId(t, a) : t \in 0..now, a \in Owners}

\* A ReminderManager its owner drives from one thread while the scheduler
\* thread runs: reminders are added and cancelled, the manager is started and
\* stopped, time passes.
ReminderNext ==
    \/ \E agent_id \in Owners, trigger_time \in TriggerTimes :
          AddTimeReminder(agent_id, Body, trigger_time)
    \/ \E agent_id \in Owners : AddConditionalReminder(agent_id, Body)
    \/ \E reminder_id \in ReturnedIds : CancelReminder(reminder_id)
    \/ Tick
    \/ ReminderManagerStart
    \/ ReminderManagerStop
    \/ CheckRemindersTest
    \/ \E value \in BOOLEAN : CheckRemindersNext(value)
    \/ CheckRemindersRaises
    \/ CheckRemindersRemove
    \/ Callback
    \/ CallbackRaises

SpecReminders == Init /\ [][ReminderNext]_vars

----------------------------------------------------------------------------
(* The GroupChat with its reminder thread: start() runs both loops, and     *)
(* _check_reminders sends a reminder through _send_to_chat.                  *)

\* GroupChat._check_reminders: asyncio.run(self._send_to_chat(...)).  The
\* argument is evaluated first, so the record is appended; asyncio.run is then
\* handed the bool _send_to_chat returned and raises ValueError ("a coroutine
\* was expected"), which nothing catches: the thread ends.
CheckRemindersSend ==
    /\ reminder_thread.pc = "call"
    /\ Len(chat_history) < MaxHistory
    /\ LET r == reminders[IndexOf(reminders, reminder_thread.cur, 1)]
       IN  /\ chat_history' = SendToChat(chat_history, ReminderSystem,
                                        ReminderMessage(r))
           /\ fired' = Append(fired, Fired(r, TRUE))
    /\ reminder_thread' = [reminder_thread EXCEPT !.pc = "dead"]
    /\ UNCHANGED <<agents, is_processing, running, chat_logging, poll, tasks,
                   console, calls, shown, reminders, now, created>>
    /\ UNCHANGED fileVars

\* the text the human sends here
ChatTexts == { <<"h","i">> }
\* what the agent's run() may return here: "@human", and "ok" with no mention
ChatReplies == { <<"@","h","u","m","a","n">>, <<"o","k">> }

\* the trigger times reminders are added with here: the time is reached
\* from the start, and the clock stands still
ChatTriggerTimes == {now}

\* The chat with one agent, the human, time reminders and both loops.
ChatNext ==
    \/ \E name \in Owners : AddAgent(name)
    \/ \E agent_id \in Owners : RemoveAgent(agent_id)
    \/ \E text \in ChatTexts : DirectHumanInput(text)
    \/ Start
    \/ Stop
    \/ PollTick
    \/ \E message \in ChatReplies : PollRunReturns(message)
    \/ PollRunRaises
    \/ \E agent_id \in Owners, trigger_time \in ChatTriggerTimes :
          AddTimeReminder(agent_id, Body, trigger_time)
    \/ CheckRemindersTest
    \/ \E value \in BOOLEAN : CheckRemindersNext(value)
    \/ CheckRemindersRemove
    \/ CheckRemindersSend

SpecChat == Init /\ [][ChatNext]_vars

----------------------------------------------------------------------------
(* _send_to_chat as the reminder thread runs it beside the event loop: the  *)
(* record is built, and stamped, in one step and appended in another, and   *)
(* the event loop may post in between.                                       *)

\* _send_to_chat in the reminder thread, up to message_record = MessageRecord(...)
CheckRemindersCreate ==
    /\ reminder_thread.pc = "call"
    /\ LET r == reminders[IndexOf(reminders, reminder_thread.cur, 1)]
           message == ReminderMessage(r)
           receivers == ParseMentions(message)
       IN  reminder_thread' =
             IF receivers # <<>>
             THEN [reminder_thread EXCEPT
                      !.pc = "append",
                      !.message_record =
                          MessageRecord(ReminderSystem, message, receivers)]
             ELSE [reminder_thread EXCEPT !.pc = "dead"]
    /\ UNCHANGED <<chatVars, fileVars, running, reminders, now, created, fired>>

\* self.chat_history.append(message_record) and return True; asyncio.run is
\* handed the bool and raises ValueError, which ends the thread
CheckRemindersAppend ==
    /\ reminder_thread.pc = "append"
    /\ Len(chat_history) < MaxHistory
    /\ chat_history' = Append(chat_history, reminder_thread.message_record)
    /\ fired' = Append(fired, Fired(reminders[IndexOf(reminders, reminder_thread.cur, 1)],
                                    TRUE))
    /\ reminder_thread' = [reminder_thread EXCEPT !.pc = "dead",
                                                  !.message_record = None]
    /\ UNCHANGED <<agents, is_processing, running, chat_logging, poll, tasks,
                   console, calls, shown, reminders, now, created>>
    /\ UNCHANGED fileVars

\* the trigger time reminders are added with here: the first second
ClockTriggerTimes == {0}

\* The chat with the clock running: the human posts from the event loop while
\* the reminder thread posts from its own thread.  The poll task start()
\* creates posts nothing by itself and its steps are left out.
ClockNext ==
    \/ \E text \in ChatTexts : DirectHumanInput(text)
    \/ Start
    \/ Stop
    \/ Tick
    \/ \E agent_id \in Owners, trigger_time \in ClockTriggerTimes :
          AddTimeReminder(agent_id, Body, trigger_time)
    \/ CheckRemindersTest
    \/ \E value \in BOOLEAN : CheckRemindersNext(value)
    \/ CheckRemindersRemove
    \/ CheckRemindersCreate
    \/ CheckRemindersAppend

SpecClock == Init /\ [][ClockNext]_vars

----------------------------------------------------------------------------
(* start() after stop(): each start() creates a poll task and a reminder     *)
(* thread, whatever became of the ones before.  poll is the poll task the    *)
(* steps of _check_idle_agents apply to; the other poll tasks that have not  *)
(* ended wait in tasks until the event loop turns to one of them.            *)

\* how many poll tasks of earlier start() calls may be alive at once
MaxRestarts == 1

\* a poll task that has not ended
Alive(task) == task.pc \in {"ready", "await", "sleep"}

\* start() when an earlier start() was followed by stop(); stop() has joined
\* the reminder thread, nothing has waited for the poll task
StartAgain ==
    /\ ~running
    /\ poll.pc # "none"
    /\ reminder_thread.pc \in {"done", "dead"}
    /\ running' = TRUE
    /\ reminder_thread' = Thread("test")
    /\ poll' = [NoPoll EXCEPT !.pc = "ready"]
    /\ IF Alive(poll)
       THEN /\ Len(tasks) < MaxRestarts
            /\ tasks' = Append(tasks, poll)
       ELSE tasks' = tasks
    /\ UNCHANGED <<agents, is_processing, chat_history, chat_logging, console,
                   calls, shown, reminders, now, created, fired>>
    /\ UNCHANGED fileVars

\* the event loop turns to the poll task tasks[t]
SwitchTask(t) ==
    /\ poll' = tasks[t]
    /\ tasks' = IF Alive(poll) THEN [tasks EXCEPT ![t] = poll]
                 ELSE RemoveAt(tasks, t)
    /\ UNCHANGED <<agents, is_processing, chat_history, running, chat_logging,
                   console, calls, shown>>
    /\ UNCHANGED <<reminderVars, fileVars>>

\* The chat with one agent and the human, started and stopped at will.
RestartNext ==
    \/ \E name \in Owners : AddAgent(name)
    \/ \E text \in ChatTexts : DirectHumanInput(text)
    \/ Start
    \/ Stop
    \/ StartAgain
    \/ \E t \in 1..Len(tasks) : SwitchTask(t)
    \/ PollTick
    \/ \E message \in ChatReplies : PollRunReturns(message)
    \/ PollRunRaises
    \/ CheckRemindersTest

SpecRestart == Init /\ [][RestartNext]_vars

----------------------------------------------------------------------------
(* src/reminder_claude.py: reminders kept in a markdown file, one block per  *)
(* reminder.  A block is the sequence of lines to_markdown writes, a line    *)
(* its key and its value; tags and descriptions are not used.  A due time    *)
(* is None or <<t>>, t in whole units of the clock.  The monitor thread only *)
(* reads the file; a load is taken to see the file between two saves.        *)

\* the most blocks the environment lets the file hold
MaxBlocks == 2

\* the longest history of notifications the environment waits for
MaxNotified == 2

PENDING   == "PENDING"
COMPLETED == "COMPLETED"
CANCELLED == "CANCELLED"

Titles == {<<"t">>}
DueTimes == {None, <<MaxClock>>}

\* Reminder.__init__
MdReminder(id, title, due_datetime, status) ==
    [id |-> id, title |-> title, due_datetime |-> due_datetime, status |-> status]

\* Reminder.to_markdown: the header, the status, the due time if there is one
ToMarkdown(r) ==
    <<[key |-> "##", value |-> <<r.id, r.title>>],
      [key |-> "**Status:**", value |-> <<r.status>>]>>
    \o (IF r.due_datetime # None
        THEN <<[key |-> "**Due:**", value |-> r.due_datetime]>>
        ELSE <<>>)

\* re.search for a line: the position of the first line of block from k on
\* with this key, 0 when there is none
RECURSIVE Search(_, _, _)
Search(block, key, k) ==
    IF k > Len(block) THEN 0
    ELSE IF block[k].key = key THEN k
    ELSE Search(block, key, k + 1)

\* Reminder.from_markdown_block, for a block that has a header
FromMarkdownBlock(block_text) ==
    LET header_match == Search(block_text, "##", 1)
        status_match == Search(block_text, "**Status:**", 1)
        due_match == Search(block_text, "**Due:**", 1)
    IN  MdReminder(block_text[header_match].value[1],
                   block_text[header_match].value[2],
                   IF due_match # 0 THEN block_text[due_match].value ELSE None,
                   IF status_match # 0 THEN block_text[status_match].value[1]
                   ELSE PENDING)

\* load_reminders
LoadReminders(content) ==
    [k \in 1..Len(content) |-> FromMarkdownBlock(content[k])]

\* save_reminders: the content written
SaveReminders(rs) == [k \in 1..Len(rs) |-> ToMarkdown(rs[k])]

\* f"R{n:03d}"
MdId(n) ==
    <<"R">> \o (IF n < 1000
                THEN <<Digit(n \div 100), Digit((n \div 10) % 10), Digit(n % 10)>>
                ELSE Str(n))

\* the ids the caller passes to remove, cancel and complete
MdIds == {MdId(n) : n \in 1..MaxBlocks}

\* the position of the first reminder of rs from k on whose id is reminder_id
RECURSIVE MdFirst(_, _, _)
MdFirst(rs, reminder_id, k) ==
    IF k > Len(rs) THEN 0
    ELSE IF rs[k].id = reminder_id THEN k
    ELSE MdFirst(rs, reminder_id, k + 1)

\* the id add_reminder gives to the reminder it adds to rs
NewId(rs) == MdId(Len(rs) + 1)

\* add_reminder(title, due_datetime=...)
MdAddReminder(title, due_datetime) ==
    /\ Len(file) < MaxBlocks
    /\ LET rs == LoadReminders(file)
           reminder == MdReminder(NewId(rs), title, due_datetime, PENDING)
       IN  file' = SaveReminders(Append(rs, reminder))
    /\ UNCHANGED <<monitor, main, notified, written>>
    /\ UNCHANGED <<chatVars, running, reminderVars>>

\* remove_reminder(reminder_id)
MdRemoveReminder(reminder_id) ==
    /\ LET rs == LoadReminders(file)
           kept == SelectSeq(rs, LAMBDA r : r.id # reminder_id)
       IN  file' = IF Len(kept) < Len(rs) THEN SaveReminders(kept) ELSE file
    /\ UNCHANGED <<monitor, main, notified, written>>
    /\ UNCHANGED <<chatVars, running, reminderVars>>

\* cancel_reminder and complete_reminder: the first reminder with the id gets
\* the status and the list is saved; the content of the file afterwards
SetStatus(content, reminder_id, status) ==
    LET rs == LoadReminders(content)
        k == MdFirst(rs, reminder_id, 1)
    IN  IF k # 0 THEN SaveReminders([rs EXCEPT ![k].status = status])
        ELSE content

\* cancel_reminder(reminder_id)
MdCancelReminder(reminder_id) ==
    /\ file' = SetStatus(file, reminder_id, CANCELLED)
    /\ UNCHANGED <<monitor, main, notified, written>>
    /\ UNCHANGED <<chatVars, running, reminderVars>>

\* complete_reminder(reminder_id)
MdCompleteReminder(reminder_id) ==
    /\ file' = SetStatus(file, reminder_id, COMPLETED)
    /\ UNCHANGED <<monitor, main, notified, written>>
    /\ UNCHANGED <<chatVars, running, reminderVars>>

\* ReminderManager.start: nothing when the thread is alive
MdStart ==
    /\ monitor.pc \in {"none", "done"}
    /\ monitor' = [NoMonitor EXCEPT !.pc = "test"]
    /\ UNCHANGED <<file, main, notified, written>>
    /\ UNCHANGED <<chatVars, running, reminderVars>>

\* ReminderManager.stop: nothing when no thread is alive
MdStop ==
    /\ monitor.pc \in {"test", "wait"}
    /\ monitor' = [monitor EXCEPT !.stop = TRUE]
    /\ UNCHANGED <<file, main, notified, written>>
    /\ UNCHANGED <<chatVars, running, reminderVars>>

\* the reminders of rs _check_due_reminders shows at time value
Due(rs, value) ==
    SelectSeq(rs, LAMBDA r : /\ r.status = PENDING
                             /\ r.due_datetime # None
                             /\ r.due_datetime[1] <= value)

\* monitor_loop: the stop event is not set; _check_due_reminders, which shows
\* the due reminders and writes nothing
MdMonitorCheck ==
    /\ monitor.pc = "test"
    /\ ~monitor.stop
    /\ LET due == Due(LoadReminders(file), now)
       IN  /\ Len(notified) + Len(due) <= MaxNotified
           /\ notified' = notified \o [k \in 1..Len(due) |-> due[k].id]
    /\ monitor' = [monitor EXCEPT !.pc = "wait"]
    /\ UNCHANGED <<file, main, written>>
    /\ UNCHANGED <<chatVars, running, reminderVars>>

\* monitor_loop: self._stop_monitoring.wait(self.check_interval) returns
MdMonitorWait ==
    /\ monitor.pc = "wait"
    /\ monitor' = [monitor EXCEPT !.pc = "test"]
    /\ UNCHANGED <<file, main, notified, written>>
    /\ UNCHANGED <<chatVars, running, reminderVars>>

\* monitor_loop: the stop event is set
MdMonitorEnd ==
    /\ monitor.pc = "test"
    /\ monitor.stop
    /\ monitor' = [monitor EXCEPT !.pc = "done"]
    /\ UNCHANGED <<file, main, notified, written>>
    /\ UNCHANGED <<chatVars, running, reminderVars>>

MdNext ==
    \/ \E title \in Titles, due \in DueTimes : MdAddReminder(title, due)
    \/ \E id \in MdIds : MdRemoveReminder(id)
    \/ \E id \in MdIds : MdCancelReminder(id)
    \/ \E id \in MdIds : MdCompleteReminder(id)
    \/ MdStart
    \/ MdStop
    \/ MdMonitorCheck
    \/ MdMonitorWait
    \/ MdMonitorEnd
    \/ Tick

SpecMarkdown == Init /\ [][MdNext]_vars

----------------------------------------------------------------------------
(* src/reminder_gemini.py: reminders kept in a markdown file, one line per   *)
(* reminder.  A line is its fields: the box, the id, the due time and the    *)
(* status; the task and the condition are not used.  The main thread adds    *)
(* and updates reminders, the monitor thread marks the due ones triggered.   *)
(* self._lock is taken by the monitor thread alone, so it orders nothing.    *)

GmStatuses == {"finished", "cancelled"}
GmDueStrs == {0, MaxClock}

\* parse_reminder_line: Reminder.__init__ sets checked to False whatever the box
ParseReminderLine(line) ==
    [checked |-> "False", id |-> line.id, due_str |-> line.due_str,
     status |-> line.status]

\* get_reminders
GetReminders(content) ==
    [k \in 1..Len(content) |-> ParseReminderLine(content[k])]

\* save_reminders_to_markdown: the content written
SaveRemindersToMarkdown(rs) ==
    [k \in 1..Len(rs) |->
        [box |-> IF rs[k].checked = "True" THEN "x" ELSE " ", id |-> rs[k].id,
         due_str |-> rs[k].due_str, status |-> rs[k].status]]

\* the position of the first reminder of rs from k on whose id is reminder_id
RECURSIVE GmFirst(_, _, _)
GmFirst(rs, reminder_id, k) ==
    IF k > Len(rs) THEN 0
    ELSE IF rs[k].id = reminder_id THEN k
    ELSE GmFirst(rs, reminder_id, k + 1)

\* update_reminder up to its save: the list read from content with the first
\* reminder of this id changed
Updated(content, reminder_id, new_status, new_checked_state) ==
    LET rs == GetReminders(content)
        k == GmFirst(rs, reminder_id, 1)
    IN  IF k = 0 THEN rs
        ELSE [rs EXCEPT ![k].status = new_status,
                        ![k].checked = new_checked_state]

\* add_reminder(task_description, due_datetime_str): one write in append mode
GmAddReminder(due_datetime_str) ==
    /\ main.pc = "idle"
    /\ \E reminder_id \in Uuids :
           /\ written[reminder_id] = ""
           /\ file' = Append(file, [box |-> " ", id |-> reminder_id,
                                    due_str |-> due_datetime_str,
                                    status |-> "pending"])
           /\ written' = [written EXCEPT ![reminder_id] = "pending"]
    /\ UNCHANGED <<monitor, main, notified>>
    /\ UNCHANGED <<chatVars, running, reminderVars>>

\* update_reminder(reminder_id, new_status, True) from the menu, up to the
\* save: without a reminder of this id it returns False
GmUpdateRead(reminder_id, new_status) ==
    /\ main.pc = "idle"
    /\ main' = IF GmFirst(GetReminders(file), reminder_id, 1) = 0 THEN MainIdle
               ELSE [pc |-> "save", reminder_id |-> reminder_id,
                     new_status |-> new_status,
                     local |-> Updated(file, reminder_id, new_status, "True")]
    /\ UNCHANGED <<file, monitor, notified, written>>
    /\ UNCHANGED <<chatVars, running, reminderVars>>

\* update_reminder of the main thread: save_reminders_to_markdown(reminders)
GmUpdateSave ==
    /\ main.pc = "save"
    /\ file' = SaveRemindersToMarkdown(main.local)
    /\ written' = [written EXCEPT ![main.reminder_id] = main.new_status]
    /\ main' = MainIdle
    /\ UNCHANGED <<monitor, notified>>
    /\ UNCHANGED <<chatVars, running, reminderVars>>

\* ReminderMonitor.start: nothing when the thread is alive
GmStart ==
    /\ main.pc = "idle"
    /\ monitor.pc \in {"none", "done"}
    /\ monitor' = [NoMonitor EXCEPT !.pc = "test"]
    /\ UNCHANGED <<file, main, notified, written>>
    /\ UNCHANGED <<chatVars, running, reminderVars>>

\* ReminderMonitor.stop: the event is set and the main thread joins
GmStop ==
    /\ main.pc = "idle"
    /\ monitor.pc \notin {"none", "done"}
    /\ monitor' = [monitor EXCEPT !.stop = TRUE]
    /\ main' = [MainIdle EXCEPT !.pc = "join"]
    /\ UNCHANGED <<file, notified, written>>
    /\ UNCHANGED <<chatVars, running, reminderVars>>

\* ReminderMonitor.stop: join returns
GmJoined ==
    /\ main.pc = "join"
    /\ monitor.pc = "done"
    /\ main' = MainIdle
    /\ UNCHANGED <<file, monitor, notified, written>>
    /\ UNCHANGED <<chatVars, running, reminderVars>>

\* _monitor_loop: the while test; the clock and the file are read
GmMonitorTest ==
    /\ monitor.pc = "test"
    /\ monitor' = IF monitor.stop THEN [monitor EXCEPT !.pc = "done"]
                  ELSE [monitor EXCEPT !.pc = "loop", !.now = now,
                                       !.reminders = GetReminders(file),
                                       !.i = 1]
    /\ UNCHANGED <<file, main, notified, written>>
    /\ UNCHANGED <<chatVars, running, reminderVars>>

\* _monitor_loop: one turn of the for loop, up to the save of update_reminder
GmMonitorNext ==
    /\ monitor.pc = "loop"
    /\ monitor.i <= Len(monitor.reminders)
    /\ LET reminder == monitor.reminders[monitor.i]
       IN  IF reminder.status = "pending" /\ monitor.now >= reminder.due_str
           THEN /\ Len(notified) < MaxNotified
                /\ notified' = Append(notified, reminder.id)
                /\ monitor' =
                       IF GmFirst(GetReminders(file), reminder.id, 1) = 0
                       THEN [monitor EXCEPT !.i = @ + 1]
                       ELSE [monitor EXCEPT
                                !.pc = "save",
                                !.local = Updated(file, reminder.id,
                                                  "triggered", "None")]
           ELSE /\ monitor' = [monitor EXCEPT !.i = @ + 1]
                /\ UNCHANGED notified
    /\ UNCHANGED <<file, main, written>>
    /\ UNCHANGED <<chatVars, running, reminderVars>>

\* update_reminder of the monitor thread: save_reminders_to_markdown(reminders)
GmMonitorSave ==
    /\ monitor.pc = "save"
    /\ file' = SaveRemindersToMarkdown(monitor.local)
    /\ monitor' = [monitor EXCEPT !.pc = "loop", !.i = @ + 1, !.local = <<>>]
    /\ UNCHANGED <<main, notified, written>>
    /\ UNCHANGED <<chatVars, running, reminderVars>>

\* _monitor_loop: the for loop is over; the sleep
GmMonitorSleep ==
    /\ monitor.pc = "loop"
    /\ monitor.i > Len(monitor.reminders)
    /\ monitor' = [monitor EXCEPT !.pc = "test", !.reminders = <<>>, !.i = 0]
    /\ UNCHANGED <<file, main, notified, written>>
    /\ UNCHANGED <<chatVars, running, reminderVars>>

GmNext ==
    \/ \E due \in GmDueStrs : GmAddReminder(due)
    \/ \E id \in Uuids, status \in GmStatuses : GmUpdateRead(id, status)
    \/ GmUpdateSave
    \/ GmStart
    \/ GmStop
    \/ GmJoined
    \/ GmMonitorTest
    \/ GmMonitorNext
    \/ GmMonitorSave
    \/ GmMonitorSleep
    \/ Tick

SpecGemini == Init /\ [][GmNext]_vars

----------------------------------------------------------------------------
(* Properties. *)

Range(list) == {list[i] : i \in 1..Len(list)}

\* the non-empty lists of records of hist, in log order, a caller may pass to _read_message_records
RecordLists(hist) ==
    ({CheckUnreadMessages(hist, id) : id \in Ids}
        \cup {<<k>> : k \in 1..Len(hist)}) \ {<<>>}

\* how many times x occurs in list
Count(x, list) == Cardinality({i \in 1..Len(list) : list[i] = x})

\* an identifier no record mentions and nobody registers
stranger == <<"e","v","e">>

\* every identifier a caller may ask about
AnyIds == Ids \cup {stranger} \cup
          UNION {Range(chat_history[i].receivers) : i \in 1..Len(chat_history)}

\* C1: in every reachable state and for every identifier r,
\* _check_unread_messages(r) lists exactly the records that mention r and that
\* r has not read, each once, oldest first.
C1_UnreadIsExact ==
    \A r \in AnyIds :
        LET u == CheckUnreadMessages(chat_history, r)
        IN  /\ \A k \in 1..Len(u) :
                  /\ u[k] \in 1..Len(chat_history)
                  /\ In(r, chat_history[u[k]].receivers)
                  /\ ~In(r, chat_history[u[k]].readers)
            /\ \A i \in 1..Len(chat_history) :
                  (In(r, chat_history[i].receivers) /\ ~In(r, chat_history[i].readers))
                      => Count(i, u) = 1
            /\ \A k \in 1..(Len(u) - 1) : u[k] < u[k + 1]

\* C1 witness: some identifier has two unread records after having read an
\* earlier record that mentions it
C1_Witness ==
    \E r \in AnyIds :
        /\ Len(CheckUnreadMessages(chat_history, r)) >= 2
        /\ \E i \in 1..Len(chat_history) :
              /\ In(r, chat_history[i].receivers)
              /\ In(r, chat_history[i].readers)
              /\ i < CheckUnreadMessages(chat_history, r)[1]

\* C6: marking a batch read twice for one identifier leaves the readers as
\* marking it once does, and no identifier occurs twice in a readers list.
C6_MarkReadIdempotent ==
    /\ \A id \in Ids, recs \in RecordLists(chat_history) :
          ReadMessageRecords(ReadMessageRecords(chat_history, id, recs), id, recs)
              = ReadMessageRecords(chat_history, id, recs)
    /\ \A i \in 1..Len(chat_history), id \in AnyIds :
          Count(id, chat_history[i].readers) <= 1

\* bodies in which no "@" is followed by a word character
NoMentionBodies ==
    { <<>>, <<"o","k">>, <<"@">>, <<"a","@"," ","b">>, <<"@","@"," ","@","-","x">> }

\* what _send_to_chat leaves of a record: everything but its readers
Frozen(rec) == [rec EXCEPT !.readers = <<>>]

\* C7 (state part): _send_to_chat refuses every body without a mention and
\* leaves chat_history as it was, every record of chat_history has a
\* receiver, and every record handed to an agent or shown to the human has one.
C7_State ==
    /\ \A body \in NoMentionBodies \cup Replies, sender \in Ids :
          ParseMentions(body) = <<>> =>
              /\ ~SendToChatResult(body)
              /\ SendToChat(chat_history, sender, body) = chat_history
    /\ \A i \in 1..Len(chat_history) : chat_history[i].receivers # <<>>
    /\ \A c \in 1..Len(calls) : \A k \in 1..Len(calls[c].recs) :
          chat_history[calls[c].recs[k]].receivers # <<>>
    /\ \A c \in 1..Len(shown) : \A k \in 1..Len(shown[c]) :
          chat_history[shown[c][k]].receivers # <<>>

\* C7 (step part): when an agent's reply mentions nobody, the _send_to_chat
\* of that reply appends nothing and changes nothing of any record
C7_Step ==
    \A message \in Replies :
        (PollRunReturns(message) /\ ParseMentions(message) = <<>>) =>
            /\ Len(chat_history') = Len(chat_history)
            /\ \A i \in 1..Len(chat_history) :
                  Frozen(chat_history'[i]) = Frozen(chat_history[i])
            /\ agents' = agents
            /\ running' = running
            /\ chat_logging' = chat_logging

\* C7: a body with no @mention is refused by _send_to_chat, which then
\* changes nothing; so every record of chat_history has a receiver and no
\* record without one is ever delivered.
C7_NoMentionRefused == [](C7_State) /\ [][C7_Step]_vars

\* C7 witness: an agent was handed a batch, has it marked read, and nothing
\* it sent is in chat_history: its reply mentioned nobody
C7_Witness ==
    \E c \in 1..Len(calls) :
        /\ \A k \in 1..Len(calls[c].recs) :
              In(calls[c].agent_id, chat_history[calls[c].recs[k]].readers)
        /\ \A i \in 1..Len(chat_history) : chat_history[i].sender # calls[c].agent_id

\* C8: the receivers of every record are the distinct mentions of its
\* message: each mentioned identifier occurs in receivers exactly once.
C8_ReceiversDistinct ==
    \A i \in 1..Len(chat_history) :
        /\ Range(chat_history[i].receivers) = Range(ParseMentions(chat_history[i].message))
        /\ \A id \in Range(chat_history[i].receivers) :
              Count(id, chat_history[i].receivers) = 1

\* the poll task has been started and has not died of an exception
PollAlive == poll.pc \in {"ready", "await", "sleep"}

\* b is registered, is not busy, and has unread records (b an agent or human)
Waiting(b) ==
    /\ DictHas(agents, b)
    /\ b \in AgentNames => ~is_processing[b]
    /\ CheckUnreadMessages(chat_history, b) # <<>>

\* C2: while the chat is running and the poll task is alive, an idle
\* registered agent (or the human) with unread records gets them, whether
\* or not another agent's run() ever returns.
C2_OthersStillServed ==
    \A b \in AgentNames \cup {human} :
        (running /\ PollAlive /\ Waiting(b))
            ~> ~(running /\ PollAlive /\ Waiting(b))

\* C3: when the run() of a dispatch raises, no record is appended and every
\* record of the batch has the agent among its readers afterwards.
C3_FailedRunMarksRead ==
    [][PollRunRaises =>
          /\ Len(chat_history') = Len(chat_history)
          /\ \A k \in 1..Len(poll.recs) :
                In(poll.agent_id, chat_history'[poll.recs[k]].readers)]_vars

\* record i was handed to a run() of agent a
Delivered(a, i) ==
    \E c \in 1..Len(calls) :
        calls[c].ran /\ calls[c].agent_id = a /\ i \in Range(calls[c].recs)

\* C4: while the chat is running and the poll task is alive, a record that
\* mentions "all" is eventually handed to the run() of every registered agent
\* other than its sender.
C4_AllIsDelivered ==
    \A a \in AgentNames, i \in 1..MaxHistory :
        (/\ running /\ PollAlive /\ DictHas(agents, a)
         /\ i <= Len(chat_history)
         /\ In(all, chat_history[i].receivers)
         /\ chat_history[i].sender # a)
            ~> (Delivered(a, i) \/ ~running \/ ~PollAlive \/ ~DictHas(agents, a))

\* the registered agents: the keys of self.agents that hold an agent object
Registered == {a \in AgentNames : DictHas(agents, a)}

\* C5: _send_to_agent("all", records) starts dispatches for registered agents
\* only, marks each record read for every registered agent other than its
\* sender, and adds neither "all", nor a reserved placeholder, nor the sender
\* to any record's readers.
C5_AllExpandsToAgents ==
    [][\A t \in 1..Len(tasks) :
          (TaskStart(t) /\ tasks[t].agent_id = all) =>
              LET recs == tasks[t].recs
                  made == SubSeq(tasks', Len(tasks), Len(tasks'))
              IN  /\ \A j \in 1..Len(made) : made[j].agent_id \in Registered
                  /\ \A k \in 1..Len(recs) :
                        /\ \A m \in Registered \ {chat_history[recs[k]].sender} :
                              In(m, chat_history'[recs[k]].readers)
                        /\ \A r \in Reserved \cup {chat_history[recs[k]].sender} :
                              Count(r, chat_history'[recs[k]].readers)
                                  = Count(r, chat_history[recs[k]].readers)]_vars

\* C9 as claimed: add_agent and remove_agent leave chat_history alone.
C9_RegistryPostsNothing ==
    [][\A name \in AgentNames :
          (AddAgent(name) \/ RemoveAgent(name)) => chat_history' = chat_history]_vars

\* the record _send_to_chat("all", message) appends for an announcement
Announcement(message) ==
    [sender |-> all, message |-> message, timestamp |-> now,
     receivers |-> <<all>>, readers |-> <<>>]

\* C9 (amended): add_agent inserts or replaces the mapping of the name and
\* appends one announcement record (sender "all", receivers ["all"], no
\* readers); remove_agent of a registered identifier removes its mapping and
\* appends one announcement record, and of an unregistered identifier changes
\* nothing; neither changes a record that was already there or another mapping.
C9_RegistryAnnounces ==
    [][\A name \in AgentNames :
          /\ AddAgent(name) =>
                /\ DictGet(agents', name) = name
                /\ \A k \in Ids \ {name} :
                      DictHas(agents', k) = DictHas(agents, k)
                /\ chat_history' =
                      Append(chat_history, Announcement(JoinedMessage(name)))
          /\ RemoveAgent(name) =>
                /\ ~DictHas(agents', name)
                /\ \A k \in Ids \ {name} :
                      DictHas(agents', k) = DictHas(agents, k)
                /\ chat_history' =
                      IF DictHas(agents, name)
                      THEN Append(chat_history, Announcement(LeftMessage(name)))
                      ELSE chat_history]_vars

\* C9 witness: an agent has been added and removed again, and both
\* announcements are in chat_history
C9_Witness ==
    \E name \in AgentNames :
        /\ ~DictHas(agents, name)
        /\ \E i, j \in 1..Len(chat_history) :
              /\ i < j
              /\ chat_history[i].message = JoinedMessage(name)
              /\ chat_history[j].message = LeftMessage(name)

\* C10: _send_to_agent for an identifier that is not registered calls no
\* run(), appends no record, marks nothing read and ends.
C10_UnregisteredIsDropped ==
    [][\A t \in 1..Len(tasks) :
          (/\ TaskStart(t)
           /\ tasks[t].agent_id \in AgentNames \cup {stranger}
           /\ ~DictHas(agents, tasks[t].agent_id)) =>
              /\ chat_history' = chat_history
              /\ is_processing' = is_processing
              /\ \A c \in 1..Len(calls') : c > Len(calls) => ~calls'[c].ran
              /\ tasks' = RemoveAt(tasks, t)]_vars

\* C10 witness: a dispatch to an agent that had been removed found nobody,
\* and one to an agent that never joined found nobody
C10_Witness ==
    /\ \E c \in 1..Len(calls), i \in 1..Len(chat_history) :
          /\ ~calls[c].ran
          /\ calls[c].agent_id \in AgentNames
          /\ chat_history[i].message = LeftMessage(calls[c].agent_id)
    /\ \E c \in 1..Len(calls) :
          /\ ~calls[c].ran
          /\ calls[c].agent_id \in AgentNames
          /\ \A i \in 1..Len(chat_history) :
                chat_history[i].message # JoinedMessage(calls[c].agent_id)

\* C11: an agent is added or removed while the poll task awaits a run(): the
\* poll task raises no error (it never ends with the RuntimeError of the
\* iterator over self.agents.items()).
C11_RegistryChangeKeepsPolling == poll.pc # "error"

\* C12: when the run() the poll task awaits returns a message, that message is
\* appended to chat_history as a new last record with the agent's id as sender,
\* and every record of the batch has the agent in its readers.
C12_ReplyIsPosted ==
    [][\A message \in Replies :
          PollRunReturns(message) =>
              LET n == Len(chat_history)
              IN  /\ Len(chat_history') = n + 1
                  /\ chat_history'[n + 1].sender = poll.agent_id
                  /\ chat_history'[n + 1].message = message
                  /\ \A k \in Range(poll.recs) :
                        In(poll.agent_id, chat_history'[k].readers)]_vars

\* C12, as the code has it: a returned message that mentions somebody is
\* appended as a new last record with the agent's id as sender, its mentions as
\* receivers and no reader; a returned message without a mention is appended
\* nowhere; in both cases every record of the batch has the agent in its
\* readers and no earlier record changes its sender, message or receivers.
C12_MentioningReplyIsPosted ==
    [][\A message \in Replies :
          PollRunReturns(message) =>
              LET n == Len(chat_history)
              IN  /\ IF ParseMentions(message) # <<>>
                     THEN /\ Len(chat_history') = n + 1
                          /\ chat_history'[n + 1] =
                                [sender |-> poll.agent_id, message |-> message,
                                 timestamp |-> now,
                                 receivers |-> ParseMentions(message),
                                 readers |-> <<>>]
                     ELSE Len(chat_history') = n
                  /\ \A k \in Range(poll.recs) :
                        In(poll.agent_id, chat_history'[k].readers)
                  /\ \A i \in 1..n :
                        /\ chat_history'[i].sender = chat_history[i].sender
                        /\ chat_history'[i].message = chat_history[i].message
                        /\ chat_history'[i].receivers = chat_history[i].receivers]_vars

\* C12 witness: one agent was run and its reply stands in the log after the
\* batch it has read, and another agent was run and has read its batch but no
\* record bears it as sender
C12_Witness ==
    /\ \E c \in 1..Len(calls), i \in 1..Len(chat_history) :
          /\ calls[c].ran
          /\ chat_history[i].sender = calls[c].agent_id
          /\ \A k \in Range(calls[c].recs) :
                k < i /\ In(calls[c].agent_id, chat_history[k].readers)
    /\ \E c \in 1..Len(calls) :
          /\ calls[c].ran
          /\ \A k \in Range(calls[c].recs) :
                In(calls[c].agent_id, chat_history[k].readers)
          /\ \A i \in 1..Len(chat_history) :
                chat_history[i].sender # calls[c].agent_id

\* C13: the records passed to an agent's run() come in log order: within one
\* call the batch is in increasing log position, and when a record is passed,
\* every earlier record that mentions the agent is passed with it, before it
\* in the batch, or was passed in an earlier call.
C13_DeliveryInLogOrder ==
    \A c \in 1..Len(calls) :
        LET a == calls[c].agent_id
            recs == calls[c].recs
        IN  calls[c].ran =>
              /\ \A k \in 1..(Len(recs) - 1) : recs[k] < recs[k + 1]
              /\ \A k \in 1..Len(recs), m1 \in 1..Len(chat_history) :
                    (m1 < recs[k] /\ In(a, chat_history[m1].receivers)) =>
                        \/ \E j \in 1..(k - 1) : recs[j] = m1
                        \/ \E b \in 1..(c - 1) :
                              /\ calls[b].agent_id = a
                              /\ calls[b].ran
                              /\ m1 \in Range(calls[b].recs)

\* C13 witness: an agent was passed a batch of two records and, in a later
\* call, a record posted after them
C13_Witness ==
    \E b, c \in 1..Len(calls) :
        /\ b < c
        /\ calls[b].ran /\ calls[c].ran
        /\ calls[b].agent_id = calls[c].agent_id
        /\ Len(calls[b].recs) >= 2
        /\ calls[c].recs # <<>>
        /\ calls[c].recs[1] > calls[b].recs[Len(calls[b].recs)]

\* text contains word
Contains(text, word) ==
    \E k \in 1..(Len(text) - Len(word) + 1) :
        SubSeq(text, k, k + Len(word) - 1) = word

\* how many times the callback was invoked for the object number obj
TimesFired(obj) == Cardinality({k \in 1..Len(fired) : fired[k].obj = obj})

\* the thread is in no pass over the reminders
BetweenTicks == reminder_thread.pc \in {"test", "done", "dead"}

\* C14: a time reminder for which the callback was invoked was invoked once,
\* with a message that contains its owner's id, and once the tick in which it
\* fired is over it is not in the reminders list.
C14_TimeReminderFiresOnce ==
    \A k \in 1..Len(fired) :
        fired[k].trigger_type = "time" =>
            /\ TimesFired(fired[k].obj) = 1
            /\ Contains(fired[k].message, fired[k].agent_id)
            /\ BetweenTicks => IndexOf(reminders, fired[k].obj, 1) = 0

\* C15: in a pass of the scheduler, taking a condition reminder that is
\* active and whose predicate returns true leads to the callback, the
\* callback is invoked once for it and the pass moves on to the next
\* reminder; no step removes a condition reminder from the list.
C15_ConditionFiresEveryTick ==
    [][/\ \A k \in 1..Len(reminders) :
             (/\ CheckRemindersNext(TRUE)
              /\ reminder_thread.i + 1 = k
              /\ reminders[k].trigger_type = "condition"
              /\ reminders[k].is_active) =>
                 /\ reminder_thread'.pc = "call"
                 /\ reminder_thread'.cur = reminders[k].obj
                 /\ reminder_thread'.i = k
       /\ reminder_thread.pc = "call" /\ reminder_thread' # reminder_thread =>
             /\ Len(fired') = Len(fired) + 1
             /\ fired'[Len(fired')].obj = reminder_thread.cur
             /\ reminder_thread'.pc \in {"iter", "dead"}
             /\ reminder_thread'.i = reminder_thread.i
       /\ reminder_thread.pc # "call" => fired' = fired
       /\ \A k \in 1..Len(reminders) :
             reminders[k].trigger_type = "condition" =>
                 IndexOf(reminders', reminders[k].obj, 1) # 0]_vars

\* C15 witness: the callback was invoked in two passes for a condition
\* reminder, which is still in the list
C15_Witness ==
    \E k \in 1..Len(reminders) :
        /\ reminders[k].trigger_type = "condition"
        /\ TimesFired(reminders[k].obj) >= 2

\* C16: the callback is invoked only for a reminder that is active: once
\* cancel_reminder has deactivated a reminder, no invocation follows for it.
C16_CancelledNeverFires ==
    [][Len(fired') > Len(fired) =>
          reminders[IndexOf(reminders, fired'[Len(fired')].obj, 1)].is_active]_vars

\* C17: no two reminders of the reminders list have the same reminder_id.
C17_IdsUnique ==
    \A j, k \in 1..Len(reminders) :
        j # k => reminders[j].reminder_id # reminders[k].reminder_id

\* C18: a condition callable or a callback that raises does not end the loop
\* of the scheduler thread.
C18_FailureStaysInLoop == reminder_thread.pc # "dead"

\* C19: once the reminder thread of the chat has fired a time reminder, a
\* record of "Reminder_System" that mentions the owner is in chat_history, the
\* thread is still in its loop, and when the tick is over the reminder is no
\* longer in self.reminders.
C19_FiredReminderRemoved ==
    \A k \in 1..Len(fired) :
        /\ \E i \in 1..Len(chat_history) :
              /\ chat_history[i].sender = ReminderSystem
              /\ chat_history[i].message = fired[k].message
              /\ In(fired[k].agent_id, chat_history[i].receivers)
        /\ reminder_thread.pc # "dead"
        /\ BetweenTicks => IndexOf(reminders, fired[k].obj, 1) = 0

\* C20: while running is False, the poll task that reaches its while test
\* ends without dispatching or printing anything, and so does the reminder
\* thread; stop() itself leaves the poll task where it is; and a run() that
\* returns then is handled as ever: a reply with a mention is appended as the
\* last record with the agent as sender, and the batch is marked read.
C20_StopSuppressesNewTicks ==
    [][/\ Stop => poll' = poll /\ reminder_thread' = reminder_thread
       /\ ~running =>
             /\ (poll.pc \in {"ready", "sleep"} /\ poll' # poll) =>
                   /\ poll'.pc = "done"
                   /\ chat_history' = chat_history
                   /\ calls' = calls
                   /\ shown' = shown
             /\ (reminder_thread.pc = "test" /\ reminder_thread' # reminder_thread) =>
                   /\ reminder_thread'.pc = "done"
                   /\ chat_history' = chat_history
                   /\ fired' = fired
             /\ \A message \in ChatReplies :
                   PollRunReturns(message) =>
                       LET n == Len(chat_history)
                       IN  /\ ParseMentions(message) # <<>> =>
                                 /\ Len(chat_history') = n + 1
                                 /\ chat_history'[n + 1].sender = poll.agent_id
                                 /\ chat_history'[n + 1].message = message
                           /\ \A k \in Range(poll.recs) :
                                 In(poll.agent_id, chat_history'[k].readers)
                           /\ is_processing'[poll.agent_id] = FALSE]_vars

\* C20 witness: the chat was stopped while a run() was awaited, the reminder
\* thread has ended at its while test, and the run() is still awaited
C20_Witness ==
    /\ ~running
    /\ poll.pc = "await"
    /\ reminder_thread.pc = "done"

\* C30: in every state the poll loop reaches, every reader of a record is one
\* of its receivers.
C30_ReadersAreReceivers ==
    \A i \in 1..Len(chat_history) :
        \A k \in 1..Len(chat_history[i].readers) :
            In(chat_history[i].readers[k], chat_history[i].receivers)

\* C30 witness: a record that mentions an agent and the human has been read by
\* both, and another record has no reader
C30_Witness ==
    /\ \E i \in 1..Len(chat_history) :
          \E a \in AgentNames :
              /\ In(a, chat_history[i].readers)
              /\ Len(chat_history[i].receivers) >= 2
    /\ \E i \in 1..Len(chat_history) : In(human, chat_history[i].readers)
    /\ \E i \in 1..Len(chat_history) : chat_history[i].readers = <<>>

\* C28: the flag is_processing of an agent is set only while the poll task
\* awaits a run() of that agent.
C28_FlagOnlyWhileRunning ==
    \A a \in AgentNames :
        is_processing[a] => (poll.pc = "await" /\ poll.agent_id = a)

\* list a is the beginning of list b
IsPrefix(a, b) == Len(a) <= Len(b) /\ SubSeq(b, 1, Len(a)) = a

\* C23: every step keeps the records chat_history has, in their places, with
\* their sender, message, timestamp and receivers, and the readers of each as
\* the beginning of its readers afterwards.
C23_LogIsAppendOnly ==
    [][/\ Len(chat_history') >= Len(chat_history)
       /\ \A i \in 1..Len(chat_history) :
             /\ chat_history'[i].sender = chat_history[i].sender
             /\ chat_history'[i].message = chat_history[i].message
             /\ chat_history'[i].timestamp = chat_history[i].timestamp
             /\ chat_history'[i].receivers = chat_history[i].receivers
             /\ IsPrefix(chat_history[i].readers, chat_history'[i].readers)]_vars

\* C23 witness: the log holds a record of the reminder thread that its owner
\* has read, the announcement of a removal after it, and a reply of the agent
C23_Witness ==
    \E i, j, k \in 1..Len(chat_history) :
        /\ chat_history[i].sender = ReminderSystem
        /\ chat_history[i].readers # <<>>
        /\ i < j
        /\ \E a \in Owners : chat_history[j].message = LeftMessage(a)
        /\ chat_history[k].sender \in Owners

\* C21: a turn of the console loop appends a record exactly when the line,
\* stripped, is not empty and is none of CHAT, LOG, EXIT, and that record has
\* sender "human" and "servant" among its receivers; CHAT and LOG leave
\* chat_history as it is, LOG toggles chat_logging, EXIT ends the loop.
C21_ConsoleAppendsMessages ==
    [][\A line \in Lines :
          ConsoleLine(line) =>
              LET user_input == Strip(line)
                  n == Len(chat_history)
              IN  IF user_input # <<>> /\ user_input \notin {CHAT, LOG, EXIT}
                  THEN /\ Len(chat_history') = n + 1
                       /\ SubSeq(chat_history', 1, n) = chat_history
                       /\ chat_history'[n + 1].sender = human
                       /\ In(servant, chat_history'[n + 1].receivers)
                       /\ console' = "reading"
                  ELSE /\ chat_history' = chat_history
                       /\ chat_logging' = (IF user_input = LOG THEN ~chat_logging
                                            ELSE chat_logging)
                       /\ console' = (IF user_input = EXIT THEN "exited"
                                       ELSE "reading")]_vars

C22_TimestampsMonotone ==
    \A i, j \in 1..Len(chat_history) :
        i < j => chat_history[i].timestamp <= chat_history[j].timestamp

\* the poll tasks that have not ended
LivePolls ==
    (IF Alive(poll) THEN 1 ELSE 0)
        + Cardinality({t \in 1..Len(tasks) : Alive(tasks[t])})

\* C25: whatever start() and stop() calls were made, at most one poll task is
\* alive.
C25_SingleLoop == LivePolls <= 1

\* the reminders stored in the markdown file
Stored == LoadReminders(file)

\* C24: a reminder the monitor has notified is no longer PENDING in the file.
C24_NotifiedIsFinished ==
    \A n \in 1..Len(notified) : \A k \in 1..Len(Stored) :
        Stored[k].id = notified[n] => Stored[k].status # PENDING

\* C26: no two reminders stored in the file share an id.
C26_StoredIdsUnique ==
    \A j, k \in 1..Len(Stored) : Stored[j].id = Stored[k].id => j = k

\* C27: every reminder the main thread added is in the file, and the status
\* the main thread last wrote for it is the one the file holds.
C27_MainWritesKept ==
    \A id \in Uuids :
        written[id] # "" =>
            \E k \in 1..Len(file) :
                /\ file[k].id = id
                /\ written[id] # "pending" => file[k].status = written[id]

====
